---- MODULE Spec2Model ----
(***************************************************************************)
(* The synchronisation hub of server.js: the resident Board                *)
(* (inMemoryData), its best-effort snapshot in DATA_FILE, the set of       *)
(* WebSocket clients and the messages the server has sent to each of them. *)
(* One action per event the single-threaded event loop runs to completion: *)
(* a connection being accepted, one inbound message of each type, and the  *)
(* socket events of the ws library.                                        *)
(*                                                                         *)
(* Spec starts from a DATA_FILE that is absent or holds a Board and has    *)
(* sockets on which send succeeds. SpecLoad starts from every kind of      *)
(* DATA_FILE initDataFile can find; SpecSendFails lets the socket of an    *)
(* open client break, so that send fails on it.                            *)
(*                                                                         *)
(* Inbound payloads range over the shapes of the protocol: a task is an    *)
(* object with id, status, comments and one opaque field (title); a        *)
(* member is an object with name and one opaque field (role). Payloads of  *)
(* other shapes (no payload, a task without a comments array), on which a  *)
(* case body throws into the catch of the handler, are not modelled.       *)
(***************************************************************************)
EXTENDS Integers, Sequences, FiniteSets, TLC

VARIABLES
    inMemoryData,   \* the resident Board
    dataFile,       \* content of DATA_FILE, or Absent
    fsWritable,     \* whether fs.writeFileSync succeeds (fixed for a run)
    readyState,     \* per client: NONE (not yet accepted), OPEN, CLOSED
    inbox,          \* per client: the messages the server has sent to it, in order
    log,            \* the inbound messages handled so far, in order
    sendFault,      \* per client: what send does on its socket: "none" (the
                    \* frame is written), "throws" or "errors" (see send)
    applied,        \* history: the result messages of the writeData calls, in
                    \* order, each with the client whose message caused it
    joinedAt        \* history: per client, Len(applied) when it was accepted

vars == <<inMemoryData, dataFile, fsWritable, readyState, inbox, log,
          sendFault, applied, joinedAt>>

\* ---------------------------------------------------------------- bounds
\* Number of inbound messages the event loop handles in one behaviour.
MaxMsgs == 2

\* ---------------------------------------------------------- value domains
Conns == {1, 2}
NoWs == 0                    \* excludeWs = null
Ids == {1, 2}
Statuses == {"todo", "done"}
Titles == {"a", "b"}
Comments == {"c1", "c2"}
Names == {"ann", "bob"}
Roles == {"dev", "pm"}

Task(i, s, t, cs) == [id |-> i, status |-> s, title |-> t, comments |-> cs]

\* payloads of ADD_TASK and UPDATE_TASK
TaskPayloads ==
    {Task(i, "todo", "a", <<>>) : i \in Ids} \cup {Task(i, "done", "b", <<>>) : i \in Ids}
\* payloads of DELETE_TASK
DeletePayloads == {[id |-> i] : i \in Ids}
\* payloads of MOVE_TASK
MovePayloads == {[id |-> i, status |-> s] : i \in Ids, s \in Statuses}
\* payloads of ADD_COMMENT
CommentPayloads == {[taskId |-> i, comment |-> c] : i \in Ids, c \in Comments}
\* payloads of UPDATE_TEAM_MEMBER
MemberPayloads == {[name |-> n, role |-> r] : n \in Names, r \in Roles}
\* payloads of USER_ACTIVITY
ActivityPayloads == {[user |-> "ann", typing |-> TRUE]}

\* ------------------------------------------------------------ the store
EmptyBoard == [tasks |-> <<>>, teamMembers |-> <<>>]
\* DATA_FILE does not exist
Absent == [kind |-> "absent"]
\* DATA_FILE exists and fs.readFileSync throws on it
Unreadable == [kind |-> "unreadable"]
\* DATA_FILE holds text on which JSON.parse throws
Corrupt == [kind |-> "corrupt"]
\* inMemoryData = null; also what JSON.parse gives for the text null
Null == [kind |-> "null"]
\* A JSON object that has neither tasks nor teamMembers.
NotABoard == [version |-> 1]
\* data.tasks and data.teamMembers are there to call methods on.
IsBoard(data) == DOMAIN data = {"tasks", "teamMembers"}

\* JSON.stringify(data, null, 2): the document written to DATA_FILE.
Stringify(data) == [kind |-> "json", value |-> data]

\* JSON.parse of a document Stringify has produced.
Parse(doc) == doc.value

\* A write that refuses to replace an existing file (flag 'wx').
WriteFileIfAbsent(file, writable, data) ==
    IF writable /\ file = [kind |-> "absent"] THEN Stringify(data) ELSE file

\* fs.writeFileSync(DATA_FILE, JSON.stringify(data, null, 2)) inside try/catch:
\* the file is overwritten wholesale, or left as it was when the write throws.
WriteFile(file, writable, data) == IF writable THEN Stringify(data) ELSE file

\* initDataFile(): if the file exists, is read and parses, whatever it parses
\* to becomes inMemoryData; else (no file, or the catch of line 26) start
\* empty and try to save.
InitDataFile(file, writable) ==
    IF file.kind = "json"
    THEN [mem |-> Parse(file), file |-> file]
    ELSE [mem |-> EmptyBoard, file |-> WriteFile(file, writable, EmptyBoard)]

\* readData that prefers DATA_FILE to the resident Board.
readDataFromFile ==
    IF dataFile.kind = "json" THEN Parse(dataFile) ELSE EmptyBoard

\* readData(): the resident Board when there is one, else the Board parsed from
\* DATA_FILE, else (the read throws) the empty Board. The result also becomes
\* inMemoryData.
readData ==
    IF inMemoryData # Null THEN inMemoryData
    ELSE IF dataFile.kind = "json" THEN Parse(dataFile)
    ELSE EmptyBoard

\* tasks.findIndex(t => t.id === id) over a 1-based sequence: the first
\* position whose task has that id; 0 stands for -1.
FindIndexById(tasks, id) ==
    IF \E k \in 1..Len(tasks) : tasks[k].id = id
    THEN CHOOSE k \in 1..Len(tasks) :
            tasks[k].id = id /\ \A j \in 1..(k - 1) : tasks[j].id # id
    ELSE 0

\* teamMembers.findIndex(m => m.name === name)
FindIndexByName(members, name) ==
    IF \E k \in 1..Len(members) : members[k].name = name
    THEN CHOOSE k \in 1..Len(members) :
            members[k].name = name /\ \A j \in 1..(k - 1) : members[j].name # name
    ELSE 0

\* tasks.filter(t => t.id !== id): the tasks of another id, in their order.
FilterOutId(tasks, id) ==
    LET IdDiffers(t) == t.id # id
    IN  SelectSeq(tasks, IdDiffers)

\* ------------------------------------------------------------ broadcaster
Msg(type, payload) == [type |-> type, payload |-> payload]

\* ws.send(JSON.stringify(message)) on a socket whose readyState is OPEN. The
\* ws library is not part of the source, so a send that fails has both
\* outcomes a library can give it: it raises in the caller ("throws"), or it
\* returns and the socket emits 'error' later ("errors"), which the handler
\* of line 178 logs. In both the client gets nothing.
Send(box, ws, message) ==
    IF sendFault[ws] = "none" THEN [box EXCEPT ![ws] = Append(@, message)] ELSE box

\* forEach reaches a client on which client.send raises.
Throws(excludeWs) ==
    \E c \in Conns :
        c # excludeWs /\ readyState[c] = "OPEN" /\ sendFault[c] = "throws"

\* forEach has been left by an exception before it reaches client c
\* (wss.clients is a Set: forEach visits the clients in the order they were
\* accepted, which is the order of their numbers).
ThrownBefore(c, excludeWs) ==
    \E d \in Conns :
        d < c /\ d # excludeWs /\ readyState[d] = "OPEN" /\ sendFault[d] = "throws"

\* broadcast with the test on excludeWs inverted (=== for !==).
broadcastInverted(box, message, excludeWs) ==
    [c \in Conns |->
        IF c = excludeWs /\ readyState[c] = "OPEN"
        THEN Append(box[c], message)
        ELSE box[c]]

\* broadcast that ignores excludeWs.
broadcastAll(box, message, excludeWs) ==
    [c \in Conns |->
        IF readyState[c] = "OPEN" THEN Append(box[c], message) ELSE box[c]]

\* broadcast in which the message overtakes the one queued last for the
\* client accepted last.
broadcastOvertakes(box, message, excludeWs) ==
    [c \in Conns |->
        IF c # excludeWs /\ readyState[c] = "OPEN"
        THEN IF c = 2 /\ Len(box[c]) > 1
             THEN SubSeq(box[c], 1, Len(box[c]) - 1) \o <<message, box[c][Len(box[c])]>>
             ELSE Append(box[c], message)
        ELSE box[c]]

\* broadcast(message, excludeWs): every client of wss.clients that is not
\* excludeWs and whose readyState is OPEN, in the order of forEach, up to the
\* first client.send that raises.
broadcast(box, message, excludeWs) ==
    [c \in Conns |->
        IF /\ c # excludeWs /\ readyState[c] = "OPEN"
           /\ sendFault[c] = "none" /\ ~ThrownBefore(c, excludeWs)
        THEN Append(box[c], message)
        ELSE box[c]]

\* ------------------------------------------------------------------ Init
\* A snapshot an earlier run of the server has left in DATA_FILE.
SeedBoard ==
    [tasks |-> <<Task(1, "todo", "a", <<"c1">>), Task(2, "done", "b", <<>>),
                 Task(3, "todo", "b", <<>>)>>,
     teamMembers |-> <<[name |-> "ann", role |-> "dev"],
                       [name |-> "bob", role |-> "pm"]>>]

\* The state once initDataFile() has run and the server listens: started
\* without a DATA_FILE or with the snapshot of an earlier run; no client yet.
Init ==
    /\ fsWritable \in BOOLEAN
    /\ \E f \in {Absent, Stringify(SeedBoard)} :
       LET r == InitDataFile(f, fsWritable)
       IN  inMemoryData = r.mem /\ dataFile = r.file
    /\ readyState = [c \in Conns |-> "NONE"]
    /\ inbox = [c \in Conns |-> <<>>]
    /\ log = <<>>
    /\ sendFault = [c \in Conns |-> "none"]
    /\ applied = <<>>
    /\ joinedAt = [c \in Conns |-> 0]

\* ------------------------------------------------------------- handlers
\* An inbound message as the handler sees it: its type tag (or "malformed"),
\* the client it came from and its payload.
Inbound(kind, ws, payload) == [kind |-> kind, ws |-> ws, payload |-> payload]

\* Commit without the echo to ws.
CommitNoEcho(ws, kind, payload, data, out) ==
    /\ inMemoryData' = data
    /\ dataFile' = WriteFile(dataFile, fsWritable, data)
    /\ inbox' = broadcast(inbox, out, NoWs)
    /\ log' = Append(log, [kind |-> kind, ws |-> ws, payload |-> payload])
    /\ applied' = Append(applied, [out |-> out, ws |-> ws])
    /\ UNCHANGED <<fsWritable, readyState, sendFault, joinedAt>>

\* writeData(data) followed by the broadcast to all and the echo to ws. An
\* exception out of broadcast leaves the try block for the catch, which logs:
\* the Board stays written and the echo is not sent.
Commit(ws, kind, payload, data, out) ==
    /\ inMemoryData' = data
    /\ dataFile' = WriteFile(dataFile, fsWritable, data)
    /\ inbox' = IF Throws(NoWs)
                THEN broadcast(inbox, out, NoWs)
                ELSE Send(broadcast(inbox, out, NoWs), ws, out)
    /\ log' = Append(log, Inbound(kind, ws, payload))
    /\ applied' = Append(applied, [out |-> out, ws |-> ws])
    /\ UNCHANGED <<fsWritable, readyState, sendFault, joinedAt>>

\* A lookup miss that is reported to the sender.
SkipNotify(ws, kind, payload) ==
    /\ inMemoryData' = readData
    /\ inbox' = [inbox EXCEPT ![ws] = Append(@, [type |-> "ERROR", payload |-> payload])]
    /\ log' = Append(log, [kind |-> kind, ws |-> ws, payload |-> payload])
    /\ UNCHANGED <<dataFile, fsWritable, readyState, sendFault, applied, joinedAt>>

\* A case whose lookup misses (the if around its body is false): readData has
\* run, but neither writeData nor broadcast nor send.
Skip(ws, kind, payload) ==
    /\ inMemoryData' = readData
    /\ log' = Append(log, Inbound(kind, ws, payload))
    /\ UNCHANGED <<dataFile, fsWritable, readyState, inbox, sendFault, applied, joinedAt>>

\* A connection handler that builds INIT from DATA_FILE.
ConnectionFromFile(ws) ==
    /\ readyState[ws] = "NONE"
    /\ \A c \in Conns : c < ws => readyState[c] # "NONE"
    /\ readyState' = [readyState EXCEPT ![ws] = "OPEN"]
    /\ inMemoryData' = readData
    /\ inbox' = Send(inbox, ws, Msg("INIT", readDataFromFile))
    /\ joinedAt' = [joinedAt EXCEPT ![ws] = Len(applied)]
    /\ UNCHANGED <<dataFile, fsWritable, log, sendFault, applied>>

\* wss.on('connection'): the client joins wss.clients and is sent INIT.
Connection(ws) ==
    /\ readyState[ws] = "NONE"
    /\ \A c \in Conns : c < ws => readyState[c] # "NONE"
    /\ readyState' = [readyState EXCEPT ![ws] = "OPEN"]
    /\ inMemoryData' = readData
    /\ inbox' = Send(inbox, ws, Msg("INIT", readData))
    /\ joinedAt' = [joinedAt EXCEPT ![ws] = Len(applied)]
    /\ UNCHANGED <<dataFile, fsWritable, log, sendFault, applied>>

\* ADD_TASK that puts the task in front (unshift for push).
AddTaskFront(ws, payload) ==
    LET data == readData
    IN  Commit(ws, "ADD_TASK", payload,
               [data EXCEPT !.tasks = <<payload>> \o @],
               Msg("TASK_ADDED", payload))

\* case 'ADD_TASK'
AddTask(ws, payload) ==
    LET data == readData
    IN  Commit(ws, "ADD_TASK", payload,
               [data EXCEPT !.tasks = Append(@, payload)],
               Msg("TASK_ADDED", payload))

\* UPDATE_TASK that merges the payload into the task and keeps its comments.
UpdateTaskMerge(ws, payload) ==
    LET data == readData
        taskIndex == FindIndexById(data.tasks, payload.id)
    IN  IF taskIndex # 0
        THEN Commit(ws, "UPDATE_TASK", payload,
                    [data EXCEPT !.tasks[taskIndex] =
                        [payload EXCEPT !.comments = data.tasks[taskIndex].comments]],
                    Msg("TASK_UPDATED", payload))
        ELSE Skip(ws, "UPDATE_TASK", payload)

\* case 'UPDATE_TASK'
UpdateTask(ws, payload) ==
    LET data == readData
        taskIndex == FindIndexById(data.tasks, payload.id)
    IN  IF taskIndex # 0
        THEN Commit(ws, "UPDATE_TASK", payload,
                    [data EXCEPT !.tasks[taskIndex] = payload],
                    Msg("TASK_UPDATED", payload))
        ELSE Skip(ws, "UPDATE_TASK", payload)

\* DELETE_TASK guarded by a lookup like the other cases.
DeleteTaskIfFound(ws, payload) ==
    LET data == readData
    IN  IF FindIndexById(data.tasks, payload.id) # 0
        THEN Commit(ws, "DELETE_TASK", payload,
                    [data EXCEPT !.tasks = FilterOutId(@, payload.id)],
                    Msg("TASK_DELETED", payload))
        ELSE Skip(ws, "DELETE_TASK", payload)

\* case 'DELETE_TASK'
DeleteTask(ws, payload) ==
    LET data == readData
    IN  Commit(ws, "DELETE_TASK", payload,
               [data EXCEPT !.tasks = FilterOutId(@, payload.id)],
               Msg("TASK_DELETED", payload))

\* MOVE_TASK that also moves the task to the end of the array.
MoveTaskToEnd(ws, payload) ==
    LET data == readData
        moveIndex == FindIndexById(data.tasks, payload.id)
            rest == [k \in 1..(Len(data.tasks) - 1) |->
                    IF k < moveIndex THEN data.tasks[k] ELSE data.tasks[k + 1]]
    IN  IF moveIndex # 0
        THEN Commit(ws, "MOVE_TASK", payload,
                    [data EXCEPT !.tasks =
                        Append(rest, [data.tasks[moveIndex] EXCEPT
                                          !.status = payload.status])],
                    Msg("TASK_MOVED", payload))
        ELSE Skip(ws, "MOVE_TASK", payload)

\* case 'MOVE_TASK'
MoveTask(ws, payload) ==
    LET data == readData
        moveIndex == FindIndexById(data.tasks, payload.id)
    IN  IF moveIndex # 0
        THEN Commit(ws, "MOVE_TASK", payload,
                    [data EXCEPT !.tasks[moveIndex].status = payload.status],
                    Msg("TASK_MOVED", payload))
        ELSE Skip(ws, "MOVE_TASK", payload)

\* ADD_COMMENT that puts the comment in front (unshift for push).
AddCommentFront(ws, payload) ==
    LET data == readData
        commentTaskIndex == FindIndexById(data.tasks, payload.taskId)
    IN  IF commentTaskIndex # 0
        THEN Commit(ws, "ADD_COMMENT", payload,
                    [data EXCEPT !.tasks[commentTaskIndex].comments =
                                      <<payload.comment>> \o @],
                    Msg("COMMENT_ADDED", payload))
        ELSE Skip(ws, "ADD_COMMENT", payload)

\* case 'ADD_COMMENT'
AddComment(ws, payload) ==
    LET data == readData
        commentTaskIndex == FindIndexById(data.tasks, payload.taskId)
    IN  IF commentTaskIndex # 0
        THEN Commit(ws, "ADD_COMMENT", payload,
                    [data EXCEPT !.tasks[commentTaskIndex].comments =
                                      Append(@, payload.comment)],
                    Msg("COMMENT_ADDED", payload))
        ELSE Skip(ws, "ADD_COMMENT", payload)

\* An upsert that always appends.
UpsertMemberAppend(teamMembers, payload) == Append(teamMembers, payload)

\* An upsert keyed by the wrong field.
UpsertMemberByRole(teamMembers, payload) ==
    LET found == {k \in 1..Len(teamMembers) : teamMembers[k].role = payload.role}
        memberIndex == IF found = {} THEN 0
                       ELSE CHOOSE k \in found : \A j \in found : k <= j
    IN  IF memberIndex = 0
        THEN Append(teamMembers, payload)
        ELSE [teamMembers EXCEPT ![memberIndex] = payload]

\* The upsert of case 'UPDATE_TEAM_MEMBER' on the teamMembers array.
UpsertMember(teamMembers, payload) ==
    LET memberIndex == FindIndexByName(teamMembers, payload.name)
    IN  IF memberIndex = 0
        THEN Append(teamMembers, payload)
        ELSE [teamMembers EXCEPT ![memberIndex] = payload]

\* case 'UPDATE_TEAM_MEMBER'
\* UPDATE_TEAM_MEMBER that announces only the member it has written.
UpdateTeamMemberDelta(ws, payload) ==
    LET data == readData
        teamMembers == UpsertMember(data.teamMembers, payload)
    IN  Commit(ws, "UPDATE_TEAM_MEMBER", payload,
               [data EXCEPT !.teamMembers = teamMembers],
               Msg("TEAM_UPDATED", <<payload>>))

UpdateTeamMember(ws, payload) ==
    LET data == readData
        members == UpsertMember(data.teamMembers, payload)
    IN  Commit(ws, "UPDATE_TEAM_MEMBER", payload,
               [data EXCEPT !.teamMembers = members],
               Msg("TEAM_UPDATED", members))

\* case 'USER_ACTIVITY': relayed to everyone but ws; the store is not touched.
UserActivity(ws, payload) ==
    /\ inMemoryData' = readData
    /\ inbox' = broadcast(inbox, Msg("USER_ACTIVITY", payload), ws)
    /\ log' = Append(log, Inbound("USER_ACTIVITY", ws, payload))
    /\ UNCHANGED <<dataFile, fsWritable, readyState, sendFault, applied, joinedAt>>

\* A catch that closes the connection of the sender.
MalformedCloses(ws) ==
    /\ log' = Append(log, Inbound("malformed", ws, [raw |-> "{"]))
    /\ readyState' = [readyState EXCEPT ![ws] = "CLOSED"]
    /\ UNCHANGED <<inMemoryData, dataFile, fsWritable, inbox, sendFault, applied, joinedAt>>

\* JSON.parse(message) throws: the catch logs the error and nothing else runs.
Malformed(ws) ==
    /\ log' = Append(log, Inbound("malformed", ws, [raw |-> "{"]))
    /\ UNCHANGED <<inMemoryData, dataFile, fsWritable, readyState, inbox, sendFault, applied, joinedAt>>

\* The case body throws a TypeError on its first statement, data.tasks.push,
\* .findIndex or .filter or data.teamMembers.findIndex, because readData()
\* has returned something that is not a Board: the catch logs; readData has
\* run, nothing is written or sent.
Caught(ws, kind, payload) ==
    /\ inMemoryData' = readData
    /\ log' = Append(log, Inbound(kind, ws, payload))
    /\ UNCHANGED <<dataFile, fsWritable, readyState, inbox, sendFault, applied, joinedAt>>

\* ws.on('message'): one inbound message from an open client, run to completion.
OnMessage(ws) ==
    /\ readyState[ws] = "OPEN"
    /\ Len(log) < MaxMsgs
    /\ \/ \E p \in TaskPayloads :
            IF IsBoard(readData) THEN AddTask(ws, p) ELSE Caught(ws, "ADD_TASK", p)
       \/ \E p \in TaskPayloads :
            IF IsBoard(readData) THEN UpdateTask(ws, p) ELSE Caught(ws, "UPDATE_TASK", p)
       \/ \E p \in DeletePayloads :
            IF IsBoard(readData) THEN DeleteTask(ws, p) ELSE Caught(ws, "DELETE_TASK", p)
       \/ \E p \in MovePayloads :
            IF IsBoard(readData) THEN MoveTask(ws, p) ELSE Caught(ws, "MOVE_TASK", p)
       \/ \E p \in CommentPayloads :
            IF IsBoard(readData) THEN AddComment(ws, p) ELSE Caught(ws, "ADD_COMMENT", p)
       \/ \E p \in MemberPayloads :
            IF IsBoard(readData)
            THEN UpdateTeamMember(ws, p)
            ELSE Caught(ws, "UPDATE_TEAM_MEMBER", p)
       \/ \E p \in ActivityPayloads : UserActivity(ws, p)
       \/ Malformed(ws)

\* The client goes away (closing handshake or lost socket): its readyState is
\* no longer OPEN, and the library drops it from wss.clients; the handler of
\* ws.on('close') only logs. The code reads readyState only to compare it
\* with OPEN, so CLOSED stands for CLOSING as well.
Close(ws) ==
    /\ readyState[ws] = "OPEN"
    /\ readyState' = [readyState EXCEPT ![ws] = "CLOSED"]
    /\ UNCHANGED <<inMemoryData, dataFile, fsWritable, inbox, log, sendFault, applied, joinedAt>>

Next ==
    \/ \E ws \in Conns : Connection(ws)
    \/ \E ws \in Conns : OnMessage(ws)
    \/ \E ws \in Conns : Close(ws)

Spec == Init /\ [][Next]_vars

\* The socket of an open client breaks: from now on send fails on it, in one
\* of the two ways of Send. At most one socket is broken in a behaviour.
SocketBreaks(ws) ==
    /\ readyState[ws] = "OPEN"
    /\ \A c \in Conns : sendFault[c] = "none"
    /\ \E fault \in {"throws", "errors"} :
          sendFault' = [sendFault EXCEPT ![ws] = fault]
    /\ UNCHANGED <<inMemoryData, dataFile, fsWritable, readyState, inbox, log,
                   applied, joinedAt>>

NextSendFails ==
    \/ Next
    \/ \E ws \in Conns : SocketBreaks(ws)

\* The server with clients whose sockets may break while they are open.
SpecSendFails == Init /\ [][NextSendFails]_vars

\* The state once initDataFile() has run, for every kind of DATA_FILE it can
\* find: none, one it cannot read, one that does not parse, the snapshot of a
\* Board, and JSON that parses to something else.
InitLoad ==
    /\ fsWritable \in BOOLEAN
    /\ \E f \in {Absent, Unreadable, Corrupt, Stringify(SeedBoard),
                 Stringify(NotABoard), Stringify(Null)} :
       LET r == InitDataFile(f, fsWritable)
       IN  inMemoryData = r.mem /\ dataFile = r.file
    /\ readyState = [c \in Conns |-> "NONE"]
    /\ inbox = [c \in Conns |-> <<>>]
    /\ log = <<>>
    /\ sendFault = [c \in Conns |-> "none"]
    /\ applied = <<>>
    /\ joinedAt = [c \in Conns |-> 0]

SpecLoad == InitLoad /\ [][Next]_vars

\* The runs that start without a DATA_FILE, i.e. from the empty Board.
InitFresh == Init /\ inMemoryData = EmptyBoard

SpecFresh == InitFresh /\ [][Next]_vars

\* ------------------------------------------------------------ properties
Tasks == inMemoryData.tasks
TeamMembers == inMemoryData.teamMembers
TaskIds(tasks) == {tasks[i].id : i \in 1..Len(tasks)}
Open == {c \in Conns : readyState[c] = "OPEN"}

\* The last inbound message handled.
Last == log[Len(log)]
\* A step that handles one inbound message, and that message.
Handles == Len(log') = Len(log) + 1
Cur == log'[Len(log')]
\* What the step sends to client c.
Delivered(c) == SubSeq(inbox'[c], Len(inbox[c]) + 1, Len(inbox'[c]))
Received(c, message) == \E i \in 1..Len(Delivered(c)) : Delivered(c)[i] = message

\* C1: no two tasks of the Board have the same id, in every state reachable
\* from the empty Board.
C1_UniqueTaskIds ==
    \A i, j \in 1..Len(Tasks) : i # j => Tasks[i].id # Tasks[j].id

\* The type tag of the message each store mutation results in.
ResultType(kind) ==
    CASE kind = "ADD_TASK" -> "TASK_ADDED"
      [] kind = "UPDATE_TASK" -> "TASK_UPDATED"
      [] kind = "DELETE_TASK" -> "TASK_DELETED"
      [] kind = "MOVE_TASK" -> "TASK_MOVED"
      [] kind = "ADD_COMMENT" -> "COMMENT_ADDED"
      [] kind = "UPDATE_TEAM_MEMBER" -> "TEAM_UPDATED"

\* The task a message refers to is in the Board.
Refers(m) ==
    CASE m.kind \in {"UPDATE_TASK", "MOVE_TASK"} -> m.payload.id \in TaskIds(Tasks)
      [] m.kind = "ADD_COMMENT" -> m.payload.taskId \in TaskIds(Tasks)
      [] OTHER -> FALSE

\* C2: a store mutation (ADD_TASK, DELETE_TASK, UPDATE_TEAM_MEMBER always;
\* UPDATE_TASK, MOVE_TASK, ADD_COMMENT when the task they refer to exists)
\* results in a message that the step delivers to the sender and to every
\* other client that is open when the message is handled.
C2_EchoInclusive ==
    [][(/\ Handles
        /\ \/ Cur.kind \in {"ADD_TASK", "DELETE_TASK", "UPDATE_TEAM_MEMBER"}
           \/ Refers(Cur))
       => LET out == Msg(ResultType(Cur.kind),
                         IF Cur.kind = "UPDATE_TEAM_MEMBER"
                         THEN inMemoryData'.teamMembers
                         ELSE Cur.payload)
          IN  \A c \in Open \cup {Cur.ws} : Received(c, out)]_vars

\* C2 witness: a client has handled-and-echoed TASK_MOVED while the other
\* open client has received it too.
C2_Witness ==
    /\ log # <<>>
    /\ Last.kind = "MOVE_TASK"
    /\ Open = Conns
    /\ \A c \in Conns :
          /\ inbox[c] # <<>>
          /\ inbox[c][Len(inbox[c])] = Msg("TASK_MOVED", Last.payload)

\* C3: USER_ACTIVITY from S is relayed with the same payload to every open
\* client other than S, nothing is sent to S, and neither the Board nor the
\* snapshot changes.
C3_ActivityRelay ==
    [][(Handles /\ Cur.kind = "USER_ACTIVITY")
       => /\ \A c \in Open \ {Cur.ws} :
                Delivered(c) = <<Msg("USER_ACTIVITY", Cur.payload)>>
          /\ Delivered(Cur.ws) = <<>>
          /\ inMemoryData' = inMemoryData
          /\ dataFile' = dataFile]_vars

\* C3 witness: the other client has received the activity of the sender,
\* whose own inbox still ends with its INIT.
C3_Witness ==
    /\ log # <<>>
    /\ Last.kind = "USER_ACTIVITY"
    /\ \E c \in Open \ {Last.ws} :
          /\ inbox[c] # <<>>
          /\ inbox[c][Len(inbox[c])] = Msg("USER_ACTIVITY", Last.payload)
    /\ inbox[Last.ws][Len(inbox[Last.ws])].type = "INIT"

\* C4: UPDATE_TASK, MOVE_TASK or ADD_COMMENT that refers to no task of the
\* Board changes neither the Board nor the snapshot and sends nothing to
\* anyone.
C4_LookupMissSilent ==
    [][(/\ Handles
        /\ Cur.kind \in {"UPDATE_TASK", "MOVE_TASK", "ADD_COMMENT"}
        /\ ~Refers(Cur))
       => /\ inMemoryData' = inMemoryData
          /\ dataFile' = dataFile
          /\ inbox' = inbox]_vars

\* C4 witness: a MOVE_TASK for an id the (non-empty) Board does not hold was
\* the last message handled, with both clients open.
C4_Witness ==
    /\ log # <<>>
    /\ Last.kind = "MOVE_TASK"
    /\ Tasks # <<>>
    /\ Last.payload.id \notin TaskIds(Tasks)
    /\ Open = Conns

\* The tasks whose id is not x, in their order.
RECURSIVE Without(_, _)
Without(tasks, x) ==
    IF tasks = <<>> THEN <<>>
    ELSE IF Head(tasks).id = x THEN Without(Tail(tasks), x)
    ELSE <<Head(tasks)>> \o Without(Tail(tasks), x)

\* C5: DELETE_TASK with id X leaves no task with id X, keeps the other tasks
\* in their order, and sends TASK_DELETED with the payload to every open
\* client, the sender included, whether or not a task matched.
C5_DeleteAlwaysEmits ==
    [][(Handles /\ Cur.kind = "DELETE_TASK")
       => /\ Cur.payload.id \notin TaskIds(inMemoryData'.tasks)
          /\ inMemoryData'.tasks = Without(Tasks, Cur.payload.id)
          /\ inMemoryData'.teamMembers = TeamMembers
          /\ \A c \in Open \cup {Cur.ws} :
                Received(c, Msg("TASK_DELETED", Cur.payload))]_vars

\* C5 witness: the first message deleted one task of three, two tasks remain
\* and the other client has received TASK_DELETED.
C5_Witness ==
    /\ Len(log) = 1
    /\ Last.kind = "DELETE_TASK"
    /\ Len(Tasks) = 2
    /\ \E c \in Open \ {Last.ws} :
          inbox[c][Len(inbox[c])] = Msg("TASK_DELETED", Last.payload)

\* C6: MOVE_TASK whose id matches a task sets the status of the matched task
\* and changes nothing else: the other fields of that task, the other tasks,
\* their order and teamMembers stay as they were.
C6_MoveOnlyStatus ==
    [][(Handles /\ Cur.kind = "MOVE_TASK" /\ Refers(Cur))
       => /\ Len(inMemoryData'.tasks) = Len(Tasks)
          /\ inMemoryData'.teamMembers = TeamMembers
          /\ \E i \in 1..Len(Tasks) :
                /\ Tasks[i].id = Cur.payload.id
                /\ inMemoryData'.tasks[i].status = Cur.payload.status
                /\ inMemoryData'.tasks[i].id = Tasks[i].id
                /\ inMemoryData'.tasks[i].title = Tasks[i].title
                /\ inMemoryData'.tasks[i].comments = Tasks[i].comments
                /\ \A j \in 1..Len(Tasks) :
                      j # i => inMemoryData'.tasks[j] = Tasks[j]]_vars

\* C6 witness: the first of three tasks, which carries a comment, has been
\* moved to "done" by the first message.
C6_Witness ==
    /\ Len(log) = 1
    /\ Last.kind = "MOVE_TASK"
    /\ Len(Tasks) = 3
    /\ Last.payload = [id |-> 1, status |-> "done"]
    /\ Tasks[1] = Task(1, "done", "a", <<"c1">>)

NamesUnique(members) ==
    \A i, j \in 1..Len(members) : i # j => members[i].name # members[j].name

\* C7: no two entries of teamMembers have the same name, in every reachable
\* state; UPDATE_TEAM_MEMBER replaces the entry of that name in place and
\* appends only when no entry has the name.
C7_UniqueMemberNames ==
    /\ []NamesUnique(TeamMembers)
    /\ [][(Handles /\ Cur.kind = "UPDATE_TEAM_MEMBER")
          => LET P == Cur.payload
                 old == TeamMembers
                 new == inMemoryData'.teamMembers
             IN  IF \E i \in 1..Len(old) : old[i].name = P.name
                 THEN /\ Len(new) = Len(old)
                      /\ \A i \in 1..Len(old) :
                            new[i] = IF old[i].name = P.name THEN P ELSE old[i]
                 ELSE new = Append(old, P)]_vars

\* C7 witness: the first of two members has been replaced in place.
C7_Witness ==
    /\ log # <<>>
    /\ Last.kind = "UPDATE_TEAM_MEMBER"
    /\ Len(TeamMembers) = 2
    /\ TeamMembers[1] = [name |-> "ann", role |-> "pm"]
    /\ TeamMembers[2].name = "bob"

\* C8: UPDATE_TEAM_MEMBER handled twice in a row with the same payload: the
\* second leaves teamMembers as the first left it, and its TEAM_UPDATED
\* carries the same payload as that of the first.
C8_UpsertIdempotent ==
    [][(/\ Handles
        /\ Cur.kind = "UPDATE_TEAM_MEMBER"
        /\ log # <<>>
        /\ Last.kind = "UPDATE_TEAM_MEMBER"
        /\ Last.payload = Cur.payload)
       => /\ inMemoryData'.teamMembers = TeamMembers
          /\ Delivered(Cur.ws) # <<>>
          /\ \A c \in Conns : \A i \in 1..Len(Delivered(c)) :
                Delivered(c)[i] = Msg("TEAM_UPDATED", TeamMembers)
          /\ inbox[Last.ws][Len(inbox[Last.ws])] = Msg("TEAM_UPDATED", TeamMembers)]_vars

\* C8 witness: the same payload, naming the first of two members, has been
\* handled twice in a row.
C8_Witness ==
    /\ Len(log) = 2
    /\ log[1].kind = "UPDATE_TEAM_MEMBER"
    /\ log[2] = [log[1] EXCEPT !.ws = log[2].ws]
    /\ Len(TeamMembers) = 2
    /\ TeamMembers[1] = log[2].payload
    /\ inbox[log[2].ws][Len(inbox[log[2].ws])] = Msg("TEAM_UPDATED", TeamMembers)

\* Every message handled so far is an ADD_TASK, and their ids differ pairwise.
OnlyDistinctAdds ==
    /\ \A i \in 1..Len(log) : log[i].kind = "ADD_TASK"
    /\ \A i, j \in 1..Len(log) : i # j => log[i].payload.id # log[j].payload.id

\* C9: after ADD_TASK messages with pairwise distinct ids, from any clients,
\* applied to the empty Board, tasks holds their payloads, each once, in the
\* order the messages were handled.
C9_AddsInOrder ==
    OnlyDistinctAdds => Tasks = [i \in 1..Len(log) |-> log[i].payload]

\* C9 witness: two tasks added by two different clients.
C9_Witness ==
    /\ Len(log) = 2
    /\ OnlyDistinctAdds
    /\ log[1].ws # log[2].ws
    /\ Len(Tasks) = 2

\* A step that accepts client c.
Accepts(c) == readyState[c] = "NONE" /\ readyState'[c] = "OPEN"

\* log[i] added a task that no later message deleted, replaced or changed.
AddedAndUntouched(i) ==
    /\ log[i].kind = "ADD_TASK"
    /\ \A j \in (i + 1)..Len(log) :
          /\ log[j].kind \in {"ADD_TASK", "UPDATE_TASK", "DELETE_TASK", "MOVE_TASK"}
                => log[j].payload.id # log[i].payload.id
          /\ log[j].kind = "ADD_COMMENT"
                => log[j].payload.taskId # log[i].payload.id

\* C10: while writes to DATA_FILE fail, ADD_TASK appends the task to the
\* resident Board and sends TASK_ADDED (and nothing else, no error) to every
\* open client, the file stays as it was, and the INIT of a client accepted
\* afterwards holds every task so added.
C10_MemoryAuthoritative ==
    [][~fsWritable
       => /\ (Handles /\ Cur.kind = "ADD_TASK")
             => /\ inMemoryData'.tasks = Append(Tasks, Cur.payload)
                /\ dataFile' = dataFile
                /\ \A c \in Open :
                      /\ Delivered(c) # <<>>
                      /\ \A i \in 1..Len(Delivered(c)) :
                            Delivered(c)[i] = Msg("TASK_ADDED", Cur.payload)
          /\ \A c \in Conns : Accepts(c)
             => /\ Len(Delivered(c)) = 1
                /\ Delivered(c)[1].type = "INIT"
                /\ \A i \in 1..Len(log) : AddedAndUntouched(i)
                      => \E k \in 1..Len(Delivered(c)[1].payload.tasks) :
                            Delivered(c)[1].payload.tasks[k] = log[i].payload]_vars

\* C10 witness: no DATA_FILE could be written, and a client accepted after
\* the first ADD_TASK has that task in its INIT.
C10_Witness ==
    /\ ~fsWritable
    /\ dataFile = Absent
    /\ log # <<>>
    /\ log[1].kind = "ADD_TASK"
    /\ \E c \in Conns :
          /\ inbox[c] # <<>>
          /\ inbox[c][1].type = "INIT"
          /\ inbox[c][1].payload.tasks # <<>>
          /\ inbox[c][1].payload.tasks[1] = log[1].payload

\* The message a store mutation results in, given the Board after it.
Result(m, after) ==
    Msg(ResultType(m.kind),
        IF m.kind = "UPDATE_TEAM_MEMBER" THEN after.teamMembers ELSE m.payload)

\* The step applies a store mutation.
Applies ==
    /\ Handles
    /\ \/ Cur.kind \in {"ADD_TASK", "DELETE_TASK", "UPDATE_TEAM_MEMBER"}
       \/ Refers(Cur)

\* The first message of a non-empty inbox is INIT, and no other is.
InitOnceFirst(c) ==
    inbox[c] # <<>> =>
        /\ inbox[c][1].type = "INIT"
        /\ \A i \in 2..Len(inbox[c]) : inbox[c][i].type # "INIT"

\* C11: a client receives nothing before it is accepted; on acceptance it is
\* sent exactly one INIT carrying the Board of that moment; INIT is the first
\* message of its inbox and the only INIT, and what was sent is never changed
\* by later steps.
C11_InitFirst ==
    /\ [](\A c \in Conns :
            /\ InitOnceFirst(c)
            /\ readyState[c] = "NONE" => inbox[c] = <<>>)
    /\ [][\A c \in Conns :
            /\ Accepts(c) =>
                  /\ Delivered(c) = <<Msg("INIT", inMemoryData)>>
                  /\ inMemoryData' = inMemoryData
            /\ SubSeq(inbox'[c], 1, Len(inbox[c])) = inbox[c]]_vars

\* C11 witness: a client accepted between two ADD_TASK has the first task,
\* and only it, in its INIT, followed by the TASK_ADDED of the second.
C11_Witness ==
    /\ Len(log) = 2
    /\ log[1].kind = "ADD_TASK" /\ log[2].kind = "ADD_TASK"
    /\ Len(Tasks) = 2
    /\ \E c \in Open :
          /\ Len(inbox[c]) >= 2
          /\ inbox[c][1] = Msg("INIT", [tasks |-> <<log[1].payload>>, teamMembers |-> <<>>])
          /\ inbox[c][2] = Msg("TASK_ADDED", log[2].payload)

\* C12: a message that cannot be parsed changes neither the Board nor the
\* snapshot, sends nothing to anyone and leaves every connection as it was;
\* an ADD_TASK that the same client sends next is handled as usual.
C12_MalformedDropped ==
    [][/\ (Handles /\ Cur.kind = "malformed")
          => /\ inMemoryData' = inMemoryData
             /\ dataFile' = dataFile
             /\ inbox' = inbox
             /\ readyState' = readyState
       /\ (/\ Handles
           /\ log # <<>>
           /\ Last.kind = "malformed"
           /\ Cur.ws = Last.ws)
          => /\ readyState[Cur.ws] = "OPEN"
             /\ Cur.kind = "ADD_TASK"
                   => /\ inMemoryData'.tasks = Append(Tasks, Cur.payload)
                      /\ Received(Cur.ws, Msg("TASK_ADDED", Cur.payload))]_vars

\* C12 witness: a client has sent a malformed message and then an ADD_TASK,
\* whose echo it has received.
C12_Witness ==
    /\ Len(log) = 2
    /\ log[1].kind = "malformed"
    /\ log[2].kind = "ADD_TASK"
    /\ log[2].ws = log[1].ws
    /\ readyState[log[1].ws] = "OPEN"
    /\ inbox[log[2].ws][Len(inbox[log[2].ws])] = Msg("TASK_ADDED", log[2].payload)

\* C15: for each store mutation applied, the sender receives the resulting
\* message exactly twice and every other open client exactly once.
C15_SenderTwice ==
    [][Applies
       => LET out == Result(Cur, inMemoryData')
          IN  /\ Delivered(Cur.ws) = <<out, out>>
              /\ \A c \in Open \ {Cur.ws} : Delivered(c) = <<out>>]_vars

\* C15 witness: after an ADD_COMMENT the inbox of the sender ends with two
\* COMMENT_ADDED and that of the other open client with one.
C15_Witness ==
    /\ log # <<>>
    /\ Last.kind = "ADD_COMMENT"
    /\ Open = Conns
    /\ LET out == Msg("COMMENT_ADDED", Last.payload)
           mine == inbox[Last.ws]
       IN  /\ Len(mine) >= 3
           /\ mine[Len(mine)] = out /\ mine[Len(mine) - 1] = out
           /\ mine[Len(mine) - 2] # out
           /\ \A c \in Conns \ {Last.ws} :
                 /\ Len(inbox[c]) >= 2
                 /\ inbox[c][Len(inbox[c])] = out
                 /\ inbox[c][Len(inbox[c]) - 1] # out

\* C16: UPDATE_TASK whose id matches a task puts the payload in the place of
\* that task: the task becomes the payload as a whole, the number and order
\* of tasks, every other task and teamMembers stay as they were.
C16_UpdateReplaces ==
    [][(Handles /\ Cur.kind = "UPDATE_TASK" /\ Refers(Cur))
       => /\ Len(inMemoryData'.tasks) = Len(Tasks)
          /\ inMemoryData'.teamMembers = TeamMembers
          /\ \E i \in 1..Len(Tasks) :
                /\ Tasks[i].id = Cur.payload.id
                /\ inMemoryData'.tasks[i] = Cur.payload
                /\ \A j \in 1..Len(Tasks) :
                      j # i => inMemoryData'.tasks[j] = Tasks[j]]_vars

\* C16 witness: the first of three tasks, which carried a comment, has been
\* replaced by a payload without comments.
C16_Witness ==
    /\ Len(log) = 1
    /\ Last.kind = "UPDATE_TASK"
    /\ Len(Tasks) = 3
    /\ Tasks[1] = Task(1, "done", "b", <<>>)
    /\ Tasks[1] = Last.payload

\* C17: ADD_COMMENT whose taskId matches a task appends the comment after the
\* comments of that task and changes nothing else of the Board; it sends
\* COMMENT_ADDED with the payload to every open client.
C17_CommentAppended ==
    [][(Handles /\ Cur.kind = "ADD_COMMENT" /\ Refers(Cur))
       => /\ Len(inMemoryData'.tasks) = Len(Tasks)
          /\ inMemoryData'.teamMembers = TeamMembers
          /\ \E i \in 1..Len(Tasks) :
                /\ Tasks[i].id = Cur.payload.taskId
                /\ inMemoryData'.tasks[i].comments =
                      Tasks[i].comments \o <<Cur.payload.comment>>
                /\ inMemoryData'.tasks[i].id = Tasks[i].id
                /\ inMemoryData'.tasks[i].status = Tasks[i].status
                /\ inMemoryData'.tasks[i].title = Tasks[i].title
                /\ \A j \in 1..Len(Tasks) :
                      j # i => inMemoryData'.tasks[j] = Tasks[j]
          /\ \A c \in Open :
                Received(c, Msg("COMMENT_ADDED", Cur.payload))]_vars

\* C17 witness: a second comment has been appended after the first.
C17_Witness ==
    /\ Len(log) = 1
    /\ Last.kind = "ADD_COMMENT"
    /\ Len(Tasks) = 3
    /\ Tasks[1].comments = <<"c1", "c2">>
    /\ Tasks[2].comments = <<>>

\* C18: while writes succeed, DATA_FILE holds the resident Board, so that
\* initDataFile() run on it yields the Board of the last applied mutation.
C18_SnapshotInSync ==
    fsWritable =>
        /\ dataFile = Stringify(inMemoryData)
        /\ InitDataFile(dataFile, fsWritable).mem = inMemoryData

\* C18 witness: writes succeed, a task has been deleted and a comment added
\* since the start, and the file holds that Board.
C18_Witness ==
    /\ fsWritable
    /\ Len(log) = 2
    /\ log[1].kind = "DELETE_TASK"
    /\ log[2].kind = "ADD_COMMENT"
    /\ Len(Tasks) = 2
    /\ Tasks[1].comments # <<>>
    /\ dataFile = Stringify(inMemoryData)

\* What a replica becomes when it applies one received message.
ReplicaApply(board, m) ==
    LET ts == board.tasks
        at(id) == FindIndexById(ts, id)
    IN  CASE m.type = "INIT" -> m.payload
          [] m.type = "TASK_ADDED" ->
               [board EXCEPT !.tasks = ts \o <<m.payload>>]
          [] m.type = "TASK_UPDATED" ->
               [board EXCEPT !.tasks =
                   [i \in 1..Len(ts) |->
                       IF i = at(m.payload.id) THEN m.payload ELSE ts[i]]]
          [] m.type = "TASK_DELETED" ->
               [board EXCEPT !.tasks = Without(ts, m.payload.id)]
          [] m.type = "TASK_MOVED" ->
               [board EXCEPT !.tasks =
                   [i \in 1..Len(ts) |->
                       IF i = at(m.payload.id)
                       THEN Task(ts[i].id, m.payload.status, ts[i].title, ts[i].comments)
                       ELSE ts[i]]]
          [] m.type = "COMMENT_ADDED" ->
               [board EXCEPT !.tasks =
                   [i \in 1..Len(ts) |->
                       IF i = at(m.payload.taskId)
                       THEN Task(ts[i].id, ts[i].status, ts[i].title,
                                 ts[i].comments \o <<m.payload.comment>>)
                       ELSE ts[i]]]
          [] m.type = "TEAM_UPDATED" ->
               [board EXCEPT !.teamMembers = m.payload]
          [] OTHER -> board

RECURSIVE Replay(_, _)
\* The replica after the messages msgs, applied in order from board.
Replay(board, msgs) ==
    IF msgs = <<>> THEN board
    ELSE Replay(ReplicaApply(board, Head(msgs)), Tail(msgs))

\* The client has sent no message.
Silent(c) == \A i \in 1..Len(log) : log[i].ws # c

\* C19: the replica of an open client that has sent nothing, built from its
\* INIT and the messages received after it, in order, equals the Board of
\* the server.
C19_ReplicaConverges ==
    \A c \in Open : Silent(c) => Replay(EmptyBoard, inbox[c]) = inMemoryData

\* C19 witness: a silent open client has followed two mutations of another
\* client, a member upsert and a task moved, from its INIT to the Board.
C19_Witness ==
    /\ Len(log) = 2
    /\ log[1].kind = "UPDATE_TEAM_MEMBER"
    /\ log[2].kind = "MOVE_TASK"
    /\ \E c \in Open :
          /\ Silent(c)
          /\ Len(inbox[c]) = 3
          /\ inbox[c][1].payload.teamMembers # TeamMembers
          /\ inbox[c][1].payload.tasks # Tasks
          /\ Replay(EmptyBoard, inbox[c]) = inMemoryData

\* C13: in a step that broadcasts while the socket of an open client fails
\* on send, every other open client that is not excluded still receives the
\* message, and the Board is what the mutation makes it.
C13_SendFailureIsolated ==
    [][(/\ Handles
        /\ Cur.kind # "malformed"
        /\ \E f \in Open : sendFault[f] # "none"
        /\ Applies \/ Cur.kind = "USER_ACTIVITY")
       => LET out == IF Cur.kind = "USER_ACTIVITY"
                     THEN Msg("USER_ACTIVITY", Cur.payload)
                     ELSE Result(Cur, inMemoryData')
              excluded == IF Cur.kind = "USER_ACTIVITY" THEN {Cur.ws} ELSE {}
          IN  /\ \A c \in Open \ excluded :
                    sendFault[c] = "none" => Received(c, out)
              /\ Cur.kind = "USER_ACTIVITY" => inMemoryData' = inMemoryData
              /\ Cur.kind = "ADD_TASK"
                    => inMemoryData'.tasks = Append(Tasks, Cur.payload)]_vars

\* The store-mutation messages among msgs, in their order.
MutationsOf(msgs) ==
    LET IsMutation(m) == m.type \notin {"INIT", "USER_ACTIVITY"}
    IN  SelectSeq(msgs, IsMutation)

RECURSIVE Expected(_, _)
\* What client c is due for the applied mutations entries: each result
\* message once, in the order of application, and once more, right after,
\* where c is the client that sent the mutation (the echo).
Expected(c, entries) ==
    IF entries = <<>> THEN <<>>
    ELSE LET e == Head(entries)
         IN  (IF e.ws = c THEN <<e.out, e.out>> ELSE <<e.out>>)
                 \o Expected(c, Tail(entries))

\* C20: every open client has received the result messages of exactly the
\* mutations applied since it was accepted, in the order in which they were
\* applied (its own ones doubled by the echo); hence two open clients have
\* received the same sequence for the time both were connected, and none
\* has a later mutation before an earlier one.
C20_SameOrderEverywhere ==
    \A c \in Open :
        /\ joinedAt[c] <= Len(applied)
        /\ MutationsOf(inbox[c]) =
              Expected(c, SubSeq(applied, joinedAt[c] + 1, Len(applied)))

\* C20 witness: two clients, each of which has sent one mutation, hold the
\* two different result messages in the same order, the order of
\* application.
C20_Witness ==
    /\ Open = Conns
    /\ Len(applied) = 2
    /\ applied[1].ws # applied[2].ws
    /\ applied[1].out # applied[2].out
    /\ \A c \in Conns :
          /\ joinedAt[c] = 0
          /\ Len(MutationsOf(inbox[c])) = 3
          /\ MutationsOf(inbox[c])[1] = applied[1].out
          /\ MutationsOf(inbox[c])[3] = applied[2].out

\* C14: loading always gives a Board: before any message is handled it is
\* the Board persisted in DATA_FILE if the file holds one, and the empty
\* Board for a file that is absent, unreadable, corrupt or holds something
\* else; once a Board is resident, readData returns it.
C14_LoadNeverFails ==
    /\ IsBoard(readData)
    /\ log = <<>> =>
          readData = IF dataFile.kind = "json" /\ IsBoard(Parse(dataFile))
                     THEN Parse(dataFile)
                     ELSE EmptyBoard
    /\ inMemoryData # Null => readData = inMemoryData
====
